---- MODULE Spec2Model ----
(***************************************************************************)
(* The GitHub issue/label reconciler of snapshot_manager/github_util.py    *)
(* (class GithubClient) as a state machine.  The state is the client's two *)
(* memo fields (__label_cache, __repo_cache), its configuration, and the   *)
(* issue tracker it talks to (issues and labels of the repositories).      *)
(* The diagram generator of scripts/create-diagrams.py adds the build      *)
(* history file it reads and the data frame prepare_data makes of it.      *)
(* Every public operation of the client is one action; the tracker calls   *)
(* an operation makes are recorded, in order and with their outcome, in    *)
(* lastOp.calls.                                                           *)
(*                                                                         *)
(* Python strings that the code inspects character by character            *)
(* (startswith, sort, f-string concatenation, title search) are sequences  *)
(* of one-character strings.  A Python Optional is a set of at most one    *)
(* value: None is {} and a value v is {v}.                                 *)
(***************************************************************************)
EXTENDS Integers, Sequences, FiniteSets, TLC

VARIABLES
    config,        \* self.config: github_repo, build_strategy, yyyymmdd
    login,         \* the account the token of self.github authenticates as
    issues,        \* tracker: the issues and pull requests, oldest first
    repo_labels,   \* tracker: the labels of config.github_repo, {[name, color]}
    _label_cache,  \* self.__label_cache: None or the fetched label list
    _repo_cache,   \* self.__repo_cache: None or the fetched repository handle
    lastOp,        \* the operation performed last: arguments, calls, outcome
    nops,          \* number of operations performed so far
    requested,     \* history: the (canonical name, color) pairs asked for
                   \* by the create_labels_for_* calls so far, all of which
                   \* returned; None once one of them has raised
    csv,           \* create-diagrams.py: the rows of the build history file
    df             \* create-diagrams.py: None or the prepared data frame

vars ==
    <<config, login, issues, repo_labels, _label_cache, _repo_cache, lastOp,
      nops, requested, csv, df>>

(***************************************************************************)
(* Bounds of the model.                                                    *)
(***************************************************************************)
MaxOps == 2        \* operations performed on one client
MaxLabels == 2     \* length of a label list handed to a create_labels_for_*
MaxFaults == 1     \* tracker calls that fail transiently within one operation
MaxRows == 2       \* rows of a build history file

(***************************************************************************)
(* Python values.                                                          *)
(***************************************************************************)
None == {}
Some(v) == {v}
Val(o) == CHOOSE v \in o : TRUE

\* The characters the model's strings are written with, by ascending code
\* point; Ord is the position, so that Ord orders as Python's str does.
Alphabet ==
    << " ", "(", ")", "-", "/", "0", "1", "2", "3", "4", "5", "6", "7", "8",
       "9", "S", "a", "b", "d", "e", "f", "g", "h", "i", "l", "m", "n", "o",
       "p", "r", "s", "t", "u", "y" >>

Ord(c) == CHOOSE i \in 1..Len(Alphabet) : Alphabet[i] = c

\* Python's str.__lt__: lexicographic by code point, a proper prefix first.
RECURSIVE StrLess(_, _)
StrLess(a, b) ==
    IF b = <<>> THEN FALSE
    ELSE IF a = <<>> THEN TRUE
    ELSE IF Head(a) = Head(b) THEN StrLess(Tail(a), Tail(b))
    ELSE Ord(Head(a)) < Ord(Head(b))

\* str.startswith
startswith(s, prefix) ==
    /\ Len(prefix) <= Len(s)
    /\ SubSeq(s, 1, Len(prefix)) = prefix

\* `needle in haystack` for strings
Contains(haystack, needle) ==
    \E i \in 0..(Len(haystack) - Len(needle)) :
        SubSeq(haystack, i + 1, i + Len(needle)) = needle

\* list(set(xs)); xs.sort() for a list of strings
RECURSIVE SortedList(_)
SortedList(S) ==
    IF S = {} THEN <<>>
    ELSE LET least == CHOOSE x \in S : \A y \in S \ {x} : StrLess(x, y)
         IN <<least>> \o SortedList(S \ {least})

Range(seq) == {seq[i] : i \in 1..Len(seq)}

(***************************************************************************)
(* String constants of the source.                                         *)
(***************************************************************************)
os_prefix == <<"o", "s", "/">>
strategy_prefix == <<"s", "t", "r", "a", "t", "e", "g", "y", "/">>
title_head ==
    << "S", "n", "a", "p", "s", "h", "o", "t", " ", "b", "u", "i", "l", "d",
       " ", "f", "o", "r", " " >>

os_color == "F9D0C4"
strategy_color == "FFFFFF"

\* f"Snapshot build for {self.config.yyyymmdd} ({strategy})"
IssueTitle(yyyymmdd, strategy) ==
    title_head \o yyyymmdd \o <<" ", "(">> \o strategy \o <<")">>

\* f"strategy/{strategy}"
StrategyLabel(strategy) == strategy_prefix \o strategy

default_creator == "github-actions[bot]"

(***************************************************************************)
(* One run of an operation threads a record m through its statements:      *)
(*   issues, labels   the tracker's state                                  *)
(*   cache, repo      self.__label_cache, self.__repo_cache                *)
(*   calls            the tracker calls made so far, with their outcome    *)
(*   lookups          the (name, color) pairs looked up in the label cache *)
(*   exc              "none", or the exception that is propagating         *)
(*   faults           the positions (1st, 2nd, ... call of this operation) *)
(*                    at which the tracker call fails transiently          *)
(***************************************************************************)
NoName == <<>>
NoColor == ""

Fails(m) == (Len(m.calls) + 1) \in m.faults

Logged(m, call, name, color, outcome) ==
    [m EXCEPT !.calls = Append(@, [call |-> call, name |-> name,
                                   color |-> color, outcome |-> outcome])]

Raise(m, e) == [m EXCEPT !.exc = e]

Transient(m, call, name, color) ==
    Raise(Logged(m, call, name, color, "transient"), "TransientError")

(***************************************************************************)
(* The issue tracker, as the client library presents it.                   *)
(***************************************************************************)
\* github.Github.get_repo
get_repo(m) ==
    IF Fails(m) THEN Transient(m, "get_repo", NoName, NoColor)
    ELSE Logged(m, "get_repo", NoName, NoColor, "ok")

\* Repository.get_labels: the list of the repository's labels
get_labels(m) ==
    IF Fails(m)
    THEN [m |-> Transient(m, "get_labels", NoName, NoColor), ret |-> {}]
    ELSE [m |-> Logged(m, "get_labels", NoName, NoColor, "ok"),
          ret |-> m.labels]

\* Repository.create_label: a name that exists is rejected (422)
create_label(m, name, color) ==
    IF Fails(m) THEN Transient(m, "create_label", name, color)
    ELSE IF \E l \in m.labels : l.name = name
    THEN Raise(Logged(m, "create_label", name, color, "rejected"),
               "GithubException")
    ELSE [Logged(m, "create_label", name, color, "ok")
            EXCEPT !.labels = @ \cup {[name |-> name, color |-> color]}]

\* Repository.get_label: a name that does not exist is not found (404)
get_label(m, name) ==
    IF Fails(m) THEN Transient(m, "get_label", name, NoColor)
    ELSE IF ~ \E l \in m.labels : l.name = name
    THEN Raise(Logged(m, "get_label", name, NoColor, "not_found"),
               "GithubException")
    ELSE Logged(m, "get_label", name, NoColor, "ok")

\* Label.edit(name=name, color=color, description="")
edit(m, name, color) ==
    IF Fails(m) THEN Transient(m, "edit", name, color)
    ELSE [Logged(m, "edit", name, color, "ok")
            EXCEPT !.labels = {l \in @ : l.name # name}
                               \cup {[name |-> name, color |-> color]}]

\* The search query of get_todays_github_issue, by its qualifiers
Query(github_repo, creator, strategy, yyyymmdd) ==
    [is |-> "issue", repo |-> github_repo, author |-> creator,
     label |-> StrategyLabel(strategy), text |-> yyyymmdd, in |-> "title"]

Matches(issue, query) ==
    /\ query.is = "issue" => ~ issue.pull_request
    /\ issue.repo = query.repo
    /\ issue.author = query.author
    /\ query.label \in issue.labels
    /\ query.in = "title" => Contains(issue.title, query.text)

\* The numbers of the items of `all` that match, in the order of `all`
RECURSIVE Matching(_, _)
Matching(all, query) ==
    IF all = <<>> THEN <<>>
    ELSE (IF Matches(Head(all), query) THEN <<Head(all).number>> ELSE <<>>)
         \o Matching(Tail(all), query)

\* github.Github.search_issues, read through totalCount and [0]
search_issues(m, query) ==
    IF Fails(m)
    THEN [m |-> Transient(m, "search_issues", NoName, NoColor), ret |-> <<>>]
    ELSE [m |-> Logged(m, "search_issues", NoName, NoColor, "ok"),
          ret |-> Matching(m.issues, query)]

\* Repository.create_issue: the new issue is authored by the token's account
create_issue(m, assignee, title) ==
    IF Fails(m)
    THEN [m |-> Transient(m, "create_issue", NoName, NoColor), ret |-> 0]
    ELSE LET number == Len(m.issues) + 1
         IN [m |-> [Logged(m, "create_issue", NoName, NoColor, "ok")
                      EXCEPT !.issues = Append(@,
                          [number |-> number, repo |-> config.github_repo,
                           pull_request |-> FALSE, title |-> title,
                           author |-> login, assignee |-> assignee,
                           labels |-> {}])],
             ret |-> number]

\* Issue.add_to_labels: the tracker creates a label it does not know
default_color == "ededed"

add_to_labels(m, number, name) ==
    IF Fails(m) THEN Transient(m, "add_to_labels", name, NoColor)
    ELSE [Logged(m, "add_to_labels", name, NoColor, "ok")
            EXCEPT !.issues[number].labels = @ \cup {name},
                   !.labels = IF \E l \in @ : l.name = name THEN @
                              ELSE @ \cup {[name |-> name,
                                            color |-> default_color]}]

(***************************************************************************)
(* class GithubClient                                                      *)
(***************************************************************************)
Raised(m) == m.exc # "none"

\* @property gh_repo
gh_repo(m) ==
    IF m.repo = None
    THEN LET m1 == get_repo(m)
         IN IF Raised(m1) THEN m1
            ELSE [m1 EXCEPT !.repo = Some(config.github_repo)]
    ELSE m

\* get_todays_github_issue with the strategy validated after the search
get_todays_github_issue_validating_late(m, strategy, creator, github_repo) ==
    LET repo == IF github_repo = None THEN config.github_repo
                ELSE Val(github_repo)
        query == Query(repo, creator,
                       IF strategy = None THEN <<>> ELSE Val(strategy),
                       config.yyyymmdd)
        found == search_issues(m, query)
    IN IF Raised(found.m) THEN [m |-> found.m, ret |-> None]
       ELSE IF strategy = None \/ strategy = Some(<<>>)
       THEN [m |-> Raise(found.m, "ValueError"), ret |-> None]
       ELSE IF Len(found.ret) > 0
       THEN [m |-> found.m, ret |-> Some(found.ret[1])]
       ELSE [m |-> found.m, ret |-> None]

\* get_todays_github_issue; ret is None or the number of the issue found
get_todays_github_issue(m, strategy, creator, github_repo) ==
    IF strategy = None \/ strategy = Some(<<>>)
    THEN [m |-> Raise(m, "ValueError"), ret |-> None]
    ELSE LET repo == IF github_repo = None THEN config.github_repo
                     ELSE Val(github_repo)
             query == Query(repo, creator, Val(strategy), config.yyyymmdd)
             found == search_issues(m, query)
         IN IF Raised(found.m) THEN [m |-> found.m, ret |-> None]
            ELSE IF Len(found.ret) > 0
            THEN [m |-> found.m, ret |-> Some(found.ret[1])]
            ELSE [m |-> found.m, ret |-> None]

\* @property label_cache(self, refresh=False): a property getter is called
\* with self alone, so refresh is its default at every access.
label_cache(m) ==
    LET refresh == FALSE
    IN IF m.cache = None \/ refresh
       THEN LET m1 == gh_repo(m)
                got == get_labels(m1)
            IN IF Raised(m1) THEN m1
               ELSE IF Raised(got.m) THEN got.m
               ELSE [got.m EXCEPT !.cache = Some(got.ret)]
       ELSE m

\* is_label_in_cache looking for the name alone
is_label_in_cache_by_name(m, name, color) ==
    LET m1 == label_cache(m)
        m2 == [m1 EXCEPT !.lookups = Append(@, [name |-> name, color |-> color])]
    IN IF Raised(m1) THEN [m |-> m1, ret |-> FALSE]
       ELSE [m |-> m2, ret |-> \E label \in Val(m1.cache) : label.name = name]

\* is_label_in_cache
is_label_in_cache(m, name, color) ==
    LET m1 == label_cache(m)
        m2 == [m1 EXCEPT !.lookups = Append(@, [name |-> name, color |-> color])]
    IN IF Raised(m1) THEN [m |-> m1, ret |-> FALSE]
       ELSE [m |-> m2,
             ret |-> \E label \in Val(m1.cache) :
                        label.name = name /\ label.color = color]

\* The try/except of _create_labels passing over a failed create_label
\* (except: pass) instead of editing the label of that name
create_or_pass(m, labelname, color) ==
    LET m1 == gh_repo(m)
        m2 == IF Raised(m1) THEN m1 ELSE create_label(m1, labelname, color)
    IN IF ~ Raised(m2) THEN m2
       ELSE [m2 EXCEPT !.exc = "none"]

\* The try/except of _create_labels: create the label, and on any exception
\* (of gh_repo or of create_label) edit the label of that name instead.
create_or_edit(m, labelname, color) ==
    LET m1 == gh_repo(m)
        m2 == IF Raised(m1) THEN m1 ELSE create_label(m1, labelname, color)
    IN IF ~ Raised(m2) THEN m2
       ELSE LET h0 == [m2 EXCEPT !.exc = "none"]
                h1 == gh_repo(h0)
                h2 == get_label(h1, labelname)
            IN IF Raised(h1) THEN h1
               ELSE IF Raised(h2) THEN h2
               ELSE edit(h2, labelname, color)

\* The loop of _create_labels over the sorted list
RECURSIVE create_labels_loop(_, _, _, _)
create_labels_loop(m, prefix, color, todo) ==
    IF todo = <<>> \/ Raised(m) THEN m
    ELSE LET label == Head(todo)
             labelname == IF ~ startswith(label, prefix) THEN prefix \o label
                          ELSE label
             hit == is_label_in_cache(m, labelname, color)
         IN IF Raised(hit.m) THEN hit.m
            ELSE IF hit.ret
            THEN create_labels_loop(hit.m, prefix, color, Tail(todo))
            ELSE create_labels_loop(create_or_edit(hit.m, labelname, color),
                                    prefix, color, Tail(todo))

\* _create_labels reading the label cache before it looks at the list
create_labels_fetching_first(m, prefix, color, labels) ==
    LET m1 == label_cache(m)
    IN IF Raised(m1) THEN m1
       ELSE IF labels = None \/ Len(Val(labels)) = 0 THEN m1
       ELSE create_labels_loop(m1, prefix, color, SortedList(Range(Val(labels))))

\* _create_labels; labels is None or a list of strings
_create_labels(m, prefix, color, labels) ==
    IF labels = None \/ Len(Val(labels)) = 0 THEN m
    ELSE create_labels_loop(m, prefix, color, SortedList(Range(Val(labels))))

create_labels_for_oses(m, labels) ==
    _create_labels(m, os_prefix, os_color, labels)

create_labels_for_strategies(m, labels) ==
    _create_labels(m, strategy_prefix, strategy_color, labels)

\* create_or_get_todays_github_issue attaching the label without creating it
create_or_get_without_label_creation(m, maintainer_handle, creator) ==
    LET got == get_todays_github_issue(m, config.build_strategy, creator,
                                       Some(config.github_repo))
    IN IF Raised(got.m) THEN [m |-> got.m, ret |-> None]
       ELSE IF got.ret # None
       THEN [m |-> got.m, ret |-> Some([issue |-> Val(got.ret), created |-> FALSE])]
       ELSE LET strategy == Val(config.build_strategy)
                m1 == gh_repo(got.m)
                new == create_issue(m1, maintainer_handle,
                                    IssueTitle(config.yyyymmdd, strategy))
                m3 == add_to_labels(new.m, new.ret, StrategyLabel(strategy))
            IN IF Raised(m1) THEN [m |-> m1, ret |-> None]
               ELSE IF Raised(new.m) THEN [m |-> new.m, ret |-> None]
               ELSE IF Raised(m3) THEN [m |-> m3, ret |-> None]
               ELSE [m |-> m3,
                     ret |-> Some([issue |-> new.ret, created |-> TRUE])]

\* create_or_get_todays_github_issue labelling also the issue it has found
create_or_get_relabelling_found(m, maintainer_handle, creator) ==
    LET got == get_todays_github_issue(m, config.build_strategy, creator,
                                       Some(config.github_repo))
        strategy == Val(config.build_strategy)
    IN IF Raised(got.m) THEN [m |-> got.m, ret |-> None]
       ELSE IF got.ret # None
       THEN LET m2 == create_labels_for_strategies(got.m, Some(<<strategy>>))
                m3 == add_to_labels(m2, Val(got.ret), StrategyLabel(strategy))
            IN IF Raised(m2) THEN [m |-> m2, ret |-> None]
               ELSE IF Raised(m3) THEN [m |-> m3, ret |-> None]
               ELSE [m |-> m3,
                     ret |-> Some([issue |-> Val(got.ret), created |-> FALSE])]
       ELSE LET m1 == gh_repo(got.m)
                new == create_issue(m1, maintainer_handle,
                                    IssueTitle(config.yyyymmdd, strategy))
                m2 == create_labels_for_strategies(new.m, Some(<<strategy>>))
                m3 == add_to_labels(m2, new.ret, StrategyLabel(strategy))
            IN IF Raised(m1) THEN [m |-> m1, ret |-> None]
               ELSE IF Raised(new.m) THEN [m |-> new.m, ret |-> None]
               ELSE IF Raised(m2) THEN [m |-> m2, ret |-> None]
               ELSE IF Raised(m3) THEN [m |-> m3, ret |-> None]
               ELSE [m |-> m3,
                     ret |-> Some([issue |-> new.ret, created |-> TRUE])]

\* create_or_get_todays_github_issue; ret is None (raised) or (issue, created)
create_or_get_todays_github_issue(m, maintainer_handle, creator) ==
    LET got == get_todays_github_issue(m, config.build_strategy, creator,
                                       Some(config.github_repo))
    IN IF Raised(got.m) THEN [m |-> got.m, ret |-> None]
       ELSE IF got.ret # None
       THEN [m |-> got.m, ret |-> Some([issue |-> Val(got.ret), created |-> FALSE])]
       ELSE LET strategy == Val(config.build_strategy)
                m1 == gh_repo(got.m)
                new == create_issue(m1, maintainer_handle,
                                    IssueTitle(config.yyyymmdd, strategy))
                m2 == create_labels_for_strategies(new.m, Some(<<strategy>>))
                m3 == add_to_labels(m2, new.ret, StrategyLabel(strategy))
            IN IF Raised(m1) THEN [m |-> m1, ret |-> None]
               ELSE IF Raised(new.m) THEN [m |-> new.m, ret |-> None]
               ELSE IF Raised(m2) THEN [m |-> m2, ret |-> None]
               ELSE IF Raised(m3) THEN [m |-> m3, ret |-> None]
               ELSE [m |-> m3,
                     ret |-> Some([issue |-> new.ret, created |-> TRUE])]

(***************************************************************************)
(* Values the model runs on.                                               *)
(***************************************************************************)
github_repo == "fedora-llvm-team/llvm-snapshots"
other_repo == "fedora-llvm-team/llvm-snapshots-test"

today == <<"2", "0", "2", "4", "0", "5", "0", "1">>
yesterday == <<"2", "0", "2", "4", "0", "4", "3", "0">>

standalone == <<"s", "t", "a", "n", "d", "a", "l", "o", "n", "e">>
big_merge == <<"b", "i", "g", "-", "m", "e", "r", "g", "e">>

Users == {default_creator, "maintainer"}
Maintainers == {"maintainer"}
Colors == {os_color, strategy_color, "000000"}

\* Label names handed to the create_labels_for_* operations
raw_p == <<"p">>
os_p == os_prefix \o <<"p">>
os_r == os_prefix \o <<"r">>
LabelPool == {raw_p, os_p, os_r}

RECURSIVE Lists(_, _)
Lists(pool, n) ==
    IF n = 0 THEN {<<>>}
    ELSE Lists(pool, n - 1)
         \cup {Append(l, x) : l \in {k \in Lists(pool, n - 1) : Len(k) = n - 1},
                              x \in pool}

\* _create_labels makes a set of its list and sorts it before anything else
\* (lines 170-172), so lists of the same elements run alike: each collection
\* of at most MaxLabels names, repetitions included, is handed in once,
\* written in descending order so that the sort has work to do.
Descending(l) == \A i, j \in 1..Len(l) : i < j => ~ StrLess(l[i], l[j])

LabelArgs(pool) ==
    {None} \cup {Some(l) : l \in {k \in Lists(pool, MaxLabels) : Descending(k)}}

Label(name, color) == [name |-> name, color |-> color]

UniqueNames(S) == \A a, b \in S : a.name = b.name => a = b

Item(number, repo, pr, yyyymmdd, strategy, author, names) ==
    [number |-> number, repo |-> repo, pull_request |-> pr,
     title |-> IssueTitle(yyyymmdd, strategy), author |-> author,
     assignee |-> "maintainer", labels |-> names]

\* What the tracker may hold when the client is constructed: nothing, or one
\* item that a search for today's standalone issue has to tell apart.
InitialItems ==
    { Item(1, github_repo, FALSE, today, standalone, default_creator,
           {StrategyLabel(standalone)}),
      Item(1, github_repo, FALSE, yesterday, standalone, default_creator,
           {StrategyLabel(standalone)}),
      Item(1, github_repo, TRUE, today, standalone, default_creator,
           {StrategyLabel(standalone)}),
      Item(1, other_repo, FALSE, today, standalone, default_creator,
           {StrategyLabel(standalone)}),
      Item(1, github_repo, FALSE, today, big_merge, default_creator,
           {StrategyLabel(big_merge)}) }

InitialIssues == {<<>>} \cup {<<i>> : i \in InitialItems}

\* Every label an issue of the repository carries is a label of the repository
LabelsOfIssuesExist(iss, labs) ==
    \A i \in 1..Len(iss) :
        iss[i].repo = github_repo =>
            \A n \in iss[i].labels : \E l \in labs : l.name = n

NoOp ==
    [op |-> "init", args |-> <<>>, calls |-> <<>>, lookups |-> <<>>,
     exc |-> "none", ret |-> None]

InitClient ==
    /\ _label_cache = None
    /\ _repo_cache = None
    /\ lastOp = NoOp
    /\ nops = 0
    /\ requested = Some({})

\* No build history is read where the client is exercised
NoData ==
    /\ csv = <<>>
    /\ df = None

\* A repository with issues: the configuration and the issues vary.
Init ==
    /\ config \in [github_repo : {github_repo},
                   build_strategy : {None, Some(<<>>), Some(standalone)},
                   yyyymmdd : {today}]
    /\ login \in Users
    /\ issues \in InitialIssues
    /\ repo_labels \in
          {S \in SUBSET ({Label(StrategyLabel(standalone), c) :
                              c \in {strategy_color, "000000"}}
                         \cup {Label(StrategyLabel(big_merge), strategy_color)}) :
              /\ UniqueNames(S)
              /\ LabelsOfIssuesExist(issues, S)
              /\ (Label(StrategyLabel(big_merge), strategy_color) \in S
                    => issues # <<>> /\ StrategyLabel(big_merge) \in issues[1].labels)}
    /\ InitClient
    /\ NoData

\* A repository without issues: the labels vary.
InitLabels ==
    /\ config = [github_repo |-> github_repo,
                 build_strategy |-> Some(standalone), yyyymmdd |-> today]
    /\ login = default_creator
    /\ issues = <<>>
    /\ repo_labels \in
          {S \in SUBSET {Label(os_p, os_color), Label(os_p, "000000"),
                         Label(os_r, "000000")} :
              UniqueNames(S)}
    /\ InitClient
    /\ NoData

(***************************************************************************)
(* The operations, each one whole call.                                    *)
(***************************************************************************)
Start(F) ==
    [issues |-> issues, labels |-> repo_labels, cache |-> _label_cache,
     repo |-> _repo_cache, calls |-> <<>>, lookups |-> <<>>, exc |-> "none",
     faults |-> F]

CreateLabelsOps == {"create_labels_for_oses", "create_labels_for_strategies"}

\* The canonical names a list of labels stands for under a prefix
CanonicalNames(prefix, labels) ==
    IF labels = None THEN {}
    ELSE {IF startswith(l, prefix) THEN l ELSE prefix \o l :
             l \in Range(Val(labels))}

\* The history after an operation: a create_labels_for_* call that returned
\* adds what it was asked for, one that raised ends the record
Requested(m, op, args) ==
    IF op \notin CreateLabelsOps THEN requested
    ELSE IF m.exc # "none" \/ requested = None THEN None
    ELSE Some(Val(requested)
              \cup {Label(n, args.color) :
                       n \in CanonicalNames(args.prefix, args.labels)})

\* Every position of the fault plan was reached by a call
PlanUsed(m) == \A i \in m.faults : i <= Len(m.calls)

Done(m, op, args, ret) ==
    /\ PlanUsed(m)
    /\ issues' = m.issues
    /\ repo_labels' = m.labels
    /\ _label_cache' = m.cache
    /\ _repo_cache' = m.repo
    /\ lastOp' = [op |-> op, args |-> args, calls |-> m.calls,
                  lookups |-> m.lookups, exc |-> m.exc,
                  ret |-> IF m.exc = "none" THEN ret ELSE None]
    /\ nops' = nops + 1
    /\ requested' = Requested(m, op, args)
    /\ UNCHANGED <<config, login, csv, df>>

\* The fault plans of at most k faults that an operation reaches, RunLen(F)
\* being the number of calls the operation makes under plan F.  A run under
\* G \cup {j}, j beyond G, is the run under G up to its call j: the plan is
\* reached exactly if the run under G makes a call j.
Max(S) == IF S = {} THEN 0 ELSE CHOOSE a \in S : \A b \in S : b <= a

RECURSIVE Plans(_, _)
Plans(RunLen(_), k) ==
    IF k = 0 THEN {{}}
    ELSE LET fewer == Plans(RunLen, k - 1)
         IN fewer \cup UNION {{G \cup {j} : j \in (Max(G) + 1)..RunLen(G)} :
                                 G \in {P \in fewer : Cardinality(P) = k - 1}}

GhRepo ==
    /\ nops < MaxOps
    /\ \E F \in Plans(LAMBDA G : Len(gh_repo(Start(G)).calls), MaxFaults) :
           Done(gh_repo(Start(F)), "gh_repo", <<>>, None)

GetTodaysGithubIssue ==
    /\ nops < MaxOps
    /\ \E strategy \in {None, Some(<<>>), Some(standalone), Some(big_merge)},
          creator \in Users, repo \in {None, Some(other_repo)} :
           \E F \in Plans(LAMBDA G : Len(get_todays_github_issue(
                              Start(G), strategy, creator, repo).m.calls),
                          MaxFaults) :
               LET r == get_todays_github_issue(Start(F), strategy, creator, repo)
               IN Done(r.m, "get_todays_github_issue",
                       [strategy |-> strategy, creator |-> creator,
                        github_repo |-> repo],
                       r.ret)

CreateOrGetTodaysGithubIssue ==
    /\ nops < MaxOps
    /\ \E maintainer_handle \in Maintainers, creator \in Users :
           \E F \in Plans(LAMBDA G : Len(create_or_get_todays_github_issue(
                              Start(G), maintainer_handle, creator).m.calls),
                          MaxFaults) :
               LET r == create_or_get_todays_github_issue(Start(F),
                                                          maintainer_handle, creator)
               IN Done(r.m, "create_or_get_todays_github_issue",
                       [maintainer_handle |-> maintainer_handle,
                        creator |-> creator],
                       r.ret)

\* An access to the label_cache property by a caller who wants, or does not
\* want, the labels fetched anew
LabelCache ==
    /\ nops < MaxOps
    /\ \E refresh \in BOOLEAN,
          F \in Plans(LAMBDA G : Len(label_cache(Start(G)).calls), MaxFaults) :
           LET m == label_cache(Start(F))
           IN Done(m, "label_cache", [refresh |-> refresh], m.cache)

IsLabelInCache(names) ==
    /\ nops < MaxOps
    /\ \E name \in names, color \in Colors :
           \E F \in Plans(LAMBDA G : Len(is_label_in_cache(
                              Start(G), name, color).m.calls), MaxFaults) :
               LET r == is_label_in_cache(Start(F), name, color)
               IN Done(r.m, "is_label_in_cache", [name |-> name, color |-> color],
                       Some(r.ret))

CreateLabelsForOses(pool) ==
    /\ nops < MaxOps
    /\ \E list \in LabelArgs(pool) :
           \E F \in Plans(LAMBDA G : Len(create_labels_for_oses(
                              Start(G), list).calls), MaxFaults) :
               Done(create_labels_for_oses(Start(F), list),
                    "create_labels_for_oses",
                    [prefix |-> os_prefix, color |-> os_color, labels |-> list],
                    None)

CreateLabelsForStrategies(pool) ==
    /\ nops < MaxOps
    /\ \E list \in LabelArgs(pool) :
           \E F \in Plans(LAMBDA G : Len(create_labels_for_strategies(
                              Start(G), list).calls), MaxFaults) :
               Done(create_labels_for_strategies(Start(F), list),
                    "create_labels_for_strategies",
                    [prefix |-> strategy_prefix, color |-> strategy_color,
                     labels |-> list],
                    None)

Next ==
    \/ GhRepo
    \/ GetTodaysGithubIssue
    \/ CreateOrGetTodaysGithubIssue
    \/ LabelCache
    \/ IsLabelInCache({StrategyLabel(standalone)})
    \/ CreateLabelsForStrategies({standalone})

NextLabels ==
    \/ GhRepo
    \/ LabelCache
    \/ IsLabelInCache({os_p})
    \/ CreateLabelsForOses(LabelPool)
    \/ CreateLabelsForStrategies({raw_p})

Spec == Init /\ [][Next]_vars

SpecLabels == InitLabels /\ [][NextLabels]_vars

(***************************************************************************)
(* scripts/create-diagrams.py: prepare_data.  The build history file is a  *)
(* list of rows whose fields are the texts of the file; the data frame is  *)
(* a list of rows of parsed values, each carrying the index label          *)
(* read_csv gave it (its position in the file, from 0).                    *)
(***************************************************************************)
\* int(s) for a text of decimal digits
RECURSIVE int(_)
int(s) ==
    IF s = <<>> THEN 0
    ELSE 10 * int(SubSeq(s, 1, Len(s) - 1)) + (Ord(s[Len(s)]) - Ord("0"))

\* A pandas Timestamp: year, month, day, second of the day
Timestamp(year, month, day, second) == <<year, month, day, second>>

\* Timestamp.__lt__
TimestampLess(a, b) ==
    \E i \in 1..4 : a[i] < b[i] /\ \A j \in 1..(i - 1) : a[j] = b[j]

\* pd.to_datetime of a text "YYYY/MM/DD"
to_datetime(s) ==
    Timestamp(int(SubSeq(s, 1, 4)), int(SubSeq(s, 6, 7)), int(SubSeq(s, 9, 10)), 0)

\* pd.to_timedelta(seconds, unit="seconds") + t, within the month of t
plus_seconds(t, seconds) ==
    Timestamp(t[1], t[2], t[3] + ((t[4] + seconds) \div 86400),
              (t[4] + seconds) % 86400)

\* pd.read_csv(parse_dates=["date"], delimiter=",", header=0)
read_csv(file) ==
    [i \in 1..Len(file) |->
        [index |-> i - 1,
         date |-> to_datetime(file[i].date),
         chroot |-> file[i].chroot,
         timestamp |-> int(file[i].timestamp),
         build_id |-> int(file[i].build_id),
         package |-> file[i].package,
         state |-> file[i].state,
         build_time |-> int(file[i].build_time)]]

\* The order of sort_values(by=["date", "chroot", "timestamp"])
RowLess(a, b) ==
    \/ TimestampLess(a.date, b.date)
    \/ /\ a.date = b.date
       /\ \/ StrLess(a.chroot, b.chroot)
          \/ a.chroot = b.chroot /\ a.timestamp < b.timestamp

\* A row put into a sorted frame behind the rows that are not greater
InsertRow(sorted, row) ==
    LET k == Cardinality({i \in 1..Len(sorted) : ~ RowLess(row, sorted[i])})
    IN SubSeq(sorted, 1, k) \o <<row>> \o SubSeq(sorted, k + 1, Len(sorted))

\* DataFrame.sort_values by several columns: a stable sort (the rows that
\* agree in the three columns keep the order of the file)
RECURSIVE sort_values(_)
sort_values(frame) ==
    IF frame = <<>> THEN <<>>
    ELSE InsertRow(sort_values(SubSeq(frame, 1, Len(frame) - 1)),
                   frame[Len(frame)])

\* DataFrame.drop_duplicates(keep="last", subset=["build_id"])
RECURSIVE drop_duplicates(_)
drop_duplicates(frame) ==
    IF frame = <<>> THEN <<>>
    ELSE (IF \E j \in 2..Len(frame) : frame[j].build_id = frame[1].build_id
          THEN <<>> ELSE <<frame[1]>>)
         \o drop_duplicates(Tail(frame))

epoch == <<"1", "9", "7", "0", "/", "0", "1", "/", "0", "1">>

\* prepare_data(filepath): the frame it returns
prepare_data(file) ==
    LET frame == drop_duplicates(sort_values(read_csv(file)))
    IN [i \in 1..Len(frame) |->
           [index |-> frame[i].index,
            date |-> frame[i].date,
            chroot |-> frame[i].chroot,
            timestamp |-> frame[i].timestamp,
            build_id |-> frame[i].build_id,
            package |-> frame[i].package,
            state |-> frame[i].state,
            build_time_secs |-> frame[i].build_time,
            build_time |-> plus_seconds(to_datetime(epoch), frame[i].build_time)]]

\* The rows a build history file is made of
may_1 == <<"2", "0", "2", "4", "/", "0", "5", "/", "0", "1">>
may_2 == <<"2", "0", "2", "4", "/", "0", "5", "/", "0", "2">>
fedora_39 == <<"f", "e", "d", "o", "r", "a", "-", "3", "9">>
rhel_9 == <<"r", "h", "e", "l", "-", "9">>

CsvRows ==
    [date : {may_1, may_2},
     chroot : {fedora_39, rhel_9},
     timestamp : {<<"9">>, <<"1", "0">>},
     build_id : {<<"7">>, <<"8">>},
     package : {"llvm"},
     state : {"succeeded"},
     build_time : {<<"9", "0">>}]

Files == UNION {[1..n -> CsvRows] : n \in 0..MaxRows}

\* A build history file on disk, not read yet
InitData ==
    /\ config = [github_repo |-> github_repo,
                 build_strategy |-> Some(standalone), yyyymmdd |-> today]
    /\ login = default_creator
    /\ issues = <<>>
    /\ repo_labels = {}
    /\ InitClient
    /\ csv \in Files
    /\ df = None

PrepareData ==
    /\ df' = Some(prepare_data(csv))
    /\ UNCHANGED <<config, login, issues, repo_labels, _label_cache,
                   _repo_cache, lastOp, nops, requested, csv>>

NextData == PrepareData

SpecData == InitData /\ [][NextData]_vars

(***************************************************************************)
(* Vocabulary of the properties.                                           *)
(***************************************************************************)
COG == "create_or_get_todays_github_issue"

\* The positions in an operation's call record of the calls of given kinds
CallsOf(op, kinds) == {i \in 1..Len(op.calls) : op.calls[i].call \in kinds}

MutatingCalls == {"create_issue", "create_label", "edit", "add_to_labels"}

\* What create_or_get's search for `creator` finds in a list of issues
Found(iss, creator) ==
    Matching(iss, Query(config.github_repo, creator,
                        Val(config.build_strategy), config.yyyymmdd))

ValidStrategy == config.build_strategy \notin {None, Some(<<>>)}

\* Today's issues of the configured strategy that `author` created
TodaysIssuesBy(iss, author) ==
    {i \in 1..Len(iss) :
        /\ iss[i].repo = config.github_repo
        /\ ~ iss[i].pull_request
        /\ iss[i].author = author
        /\ iss[i].title = IssueTitle(config.yyyymmdd, Val(config.build_strategy))}

(***************************************************************************)
(* C1: after consecutive create_or_get_todays_github_issue calls made with *)
(* the same creator (the account the client's issues are authored by), be  *)
(* they completed or aborted by a tracker error, at most one issue of that *)
(* creator exists for the configured date and strategy.                    *)
(***************************************************************************)
C1_AtMostOneIssuePerDay ==
    [][(/\ lastOp.op = COG
        /\ lastOp'.op = COG
        /\ ValidStrategy
        /\ lastOp.args.creator = login
        /\ lastOp'.args.creator = login)
       => Cardinality(TodaysIssuesBy(issues', login)) <= 1]_vars

(***************************************************************************)
(* C2: a create_or_get_todays_github_issue call whose search finds nothing *)
(* and which returns has created exactly one issue, titled with the date   *)
(* and "(<strategy>)", assigned to the maintainer and labelled             *)
(* strategy/<strategy>; that label was in the repository (from before the  *)
(* call, or created by it) before it was attached; the call returns        *)
(* (new issue, True).                                                      *)
(***************************************************************************)
C2_CreatesLabelledIssue ==
    [][(/\ lastOp'.op = COG
        /\ lastOp'.exc = "none"
        /\ Found(issues, lastOp'.args.creator) = <<>>)
       => LET r == Val(lastOp'.ret)
              new == issues'[r.issue]
              strategy == Val(config.build_strategy)
              name == StrategyLabel(strategy)
              calls == lastOp'.calls
          IN /\ r.created
             /\ Len(issues') = Len(issues) + 1
             /\ r.issue = Len(issues')
             /\ \A i \in 1..Len(issues) : issues'[i] = issues[i]
             /\ Cardinality(CallsOf(lastOp', {"create_issue"})) = 1
             /\ Contains(new.title, config.yyyymmdd)
             /\ Contains(new.title, <<"(">> \o strategy \o <<")">>)
             /\ new.assignee = lastOp'.args.maintainer_handle
             /\ new.repo = config.github_repo
             /\ name \in new.labels
             /\ \E l \in repo_labels' : l.name = name
             /\ \E a \in CallsOf(lastOp', {"add_to_labels"}) :
                   /\ calls[a].name = name
                   /\ \/ \E l \in repo_labels : l.name = name
                      \/ \E c \in CallsOf(lastOp', {"create_label"}) :
                            /\ c < a
                            /\ calls[c].name = name
                            /\ calls[c].outcome = "ok"]_vars

\* A call has created today's issue and labelled it
C2_Witness ==
    /\ lastOp.op = COG
    /\ lastOp.exc = "none"
    /\ Val(lastOp.ret).created
    /\ StrategyLabel(standalone) \in issues[Val(lastOp.ret).issue].labels
    /\ \E c \in CallsOf(lastOp, {"create_label"}) : lastOp.calls[c].outcome = "ok"

(***************************************************************************)
(* C3: a create_or_get_todays_github_issue call whose search finds at      *)
(* least one issue returns (the first issue found, False) and makes no     *)
(* call but the search: the issues and labels of the tracker and the       *)
(* client's caches are as before.                                          *)
(***************************************************************************)
C3_FoundIssueIsReturnedUntouched ==
    [][(/\ lastOp'.op = COG
        /\ ValidStrategy
        /\ Len(lastOp'.calls) >= 1
        /\ lastOp'.calls[1].outcome = "ok"
        /\ Found(issues, lastOp'.args.creator) # <<>>)
       => /\ lastOp'.exc = "none"
          /\ lastOp'.ret = Some([issue |-> Found(issues, lastOp'.args.creator)[1],
                                 created |-> FALSE])
          /\ Len(lastOp'.calls) = 1
          /\ lastOp'.calls[1].call = "search_issues"
          /\ CallsOf(lastOp', MutatingCalls) = {}
          /\ issues' = issues
          /\ repo_labels' = repo_labels
          /\ _label_cache' = _label_cache
          /\ _repo_cache' = _repo_cache]_vars

\* A call has found today's issue
C3_Witness ==
    /\ lastOp.op = COG
    /\ lastOp.exc = "none"
    /\ ~ Val(lastOp.ret).created
    /\ Val(lastOp.ret).issue \in TodaysIssuesBy(issues, lastOp.args.creator)

(***************************************************************************)
(* C4: get_todays_github_issue called with an empty or None strategy, and  *)
(* create_or_get_todays_github_issue on a client whose configured strategy *)
(* is empty or None, raise ValueError without having made a tracker call.  *)
(***************************************************************************)
C4_EmptyStrategyIsRejectedFirst ==
    (\/ /\ lastOp.op = "get_todays_github_issue"
        /\ lastOp.args.strategy \in {None, Some(<<>>)}
     \/ /\ lastOp.op = COG
        /\ ~ ValidStrategy)
    => /\ lastOp.exc = "ValueError"
       /\ lastOp.calls = <<>>

\* A client configured with the empty strategy has been refused a second time
C4_Witness ==
    /\ lastOp.op = COG
    /\ config.build_strategy = Some(<<>>)
    /\ lastOp.exc = "ValueError"
    /\ nops = 2

(***************************************************************************)
(* C5: the label cache obeys a get/invalidate contract: an access with the *)
(* cache filled and no refresh asked for fetches nothing and returns the   *)
(* memoized list; an access with the cache empty, or with a refresh asked  *)
(* for, fetches the label list (or fails trying).                          *)
(***************************************************************************)
C5_GetInvalidateContract ==
    [][lastOp'.op = "label_cache"
       => LET fetched == CallsOf(lastOp', {"get_labels"}) # {}
              refresh == lastOp'.args.refresh
          IN /\ (_label_cache # None /\ ~ refresh)
                  => /\ ~ fetched
                     /\ lastOp'.ret = _label_cache
             /\ (_label_cache = None \/ refresh)
                  => (fetched \/ lastOp'.exc # "none")]_vars

(***************************************************************************)
(* C6: a create_labels_for_* call that follows a returned call of the same *)
(* operation with the same labels, the label cache being the same before   *)
(* and after it, makes no create_label and no edit call.                   *)
(***************************************************************************)
C6_SecondInvocationIsSilent ==
    [][(/\ lastOp.op \in CreateLabelsOps
        /\ lastOp.exc = "none"
        /\ lastOp'.op = lastOp.op
        /\ lastOp'.args = lastOp.args
        /\ _label_cache' = _label_cache)
       => CallsOf(lastOp', {"create_label", "edit"}) = {}]_vars

(***************************************************************************)
(* C7: within one create_labels_for_* call the canonical names looked up   *)
(* in the cache (and then created or edited) are strictly increasing in    *)
(* lexicographic order: no name twice, and in sorted order.                *)
(***************************************************************************)
C7_CanonicalNamesStrictlyIncrease ==
    lastOp.op \in CreateLabelsOps
    => \A i, j \in 1..Len(lastOp.lookups) :
          i < j => StrLess(lastOp.lookups[i].name, lastOp.lookups[j].name)

\* The canonical names an operation looked up that its cache held in
\* another color than the one asked for
HeldInOtherColor(op, cache) ==
    {n \in {op.lookups[i].name : i \in 1..Len(op.lookups)} :
        \E l \in Val(cache) : l.name = n /\ l.color # op.args.color}

(***************************************************************************)
(* C8 as claimed: a returned create_labels_for_* call that found a         *)
(* canonical name in the cache in another color has made an edit call      *)
(* setting the category color and no create_label call for that name.      *)
(***************************************************************************)
C8_EditWithoutCreate ==
    (lastOp.op \in CreateLabelsOps /\ lastOp.exc = "none")
    => \A n \in HeldInOtherColor(lastOp, _label_cache) :
          /\ \E e \in CallsOf(lastOp, {"edit"}) :
                /\ lastOp.calls[e].name = n
                /\ lastOp.calls[e].color = lastOp.args.color
          /\ \A c \in CallsOf(lastOp, {"create_label"}) : lastOp.calls[c].name # n

(***************************************************************************)
(* C8 as amended: a returned create_labels_for_* call that found a         *)
(* canonical name in the cache in another color has attempted create_label *)
(* for that name, an attempt that created nothing, has then fetched the    *)
(* label and edited it to the category color; the repository holds the     *)
(* name once, in the category color.                                       *)
(***************************************************************************)
C8_FailedCreateThenEdit ==
    (lastOp.op \in CreateLabelsOps /\ lastOp.exc = "none")
    => \A n \in HeldInOtherColor(lastOp, _label_cache) :
          /\ \E c \in CallsOf(lastOp, {"create_label"}),
                g \in CallsOf(lastOp, {"get_label"}),
                e \in CallsOf(lastOp, {"edit"}) :
                /\ c < g /\ g < e
                /\ lastOp.calls[c].name = n
                /\ lastOp.calls[c].color = lastOp.args.color
                /\ lastOp.calls[g].name = n
                /\ lastOp.calls[e].name = n
                /\ lastOp.calls[e].color = lastOp.args.color
                /\ lastOp.calls[e].outcome = "ok"
          /\ \A c \in CallsOf(lastOp, {"create_label"}) :
                lastOp.calls[c].name = n => lastOp.calls[c].outcome # "ok"
          /\ {l \in repo_labels : l.name = n} = {Label(n, lastOp.args.color)}

\* os/p, held by the cache in 000000, has been edited to F9D0C4
C8_Witness ==
    /\ lastOp.op = "create_labels_for_oses"
    /\ lastOp.exc = "none"
    /\ _label_cache # None
    /\ Label(os_p, "000000") \in Val(_label_cache)
    /\ Label(os_p, "F9D0C4") \in repo_labels
    /\ \E e \in CallsOf(lastOp, {"edit"}) :
          lastOp.calls[e] = [call |-> "edit", name |-> os_p, color |-> "F9D0C4",
                             outcome |-> "ok"]

(***************************************************************************)
(* C9: every transient failure of a tracker call made during an operation  *)
(* is surfaced: an operation in which a call failed transiently ends with  *)
(* an error.                                                               *)
(***************************************************************************)
C9_TransientFailuresSurface ==
    (\E i \in 1..Len(lastOp.calls) : lastOp.calls[i].outcome = "transient")
    => lastOp.exc # "none"

(***************************************************************************)
(* C10: a create_labels_for_* call whose label list is empty or None       *)
(* returns without raising and without a tracker call or a cache lookup;   *)
(* the label cache, the repository handle and the repository's labels are  *)
(* as before.                                                              *)
(***************************************************************************)
C10_EmptyLabelSetIsNoOp ==
    [][(/\ lastOp'.op \in CreateLabelsOps
        /\ lastOp'.args.labels \in {None, Some(<<>>)})
       => /\ lastOp'.exc = "none"
          /\ lastOp'.calls = <<>>
          /\ lastOp'.lookups = <<>>
          /\ _label_cache' = _label_cache
          /\ _repo_cache' = _repo_cache
          /\ repo_labels' = repo_labels
          /\ issues' = issues]_vars

\* A call with None has returned on a client that has not fetched anything
C10_Witness ==
    /\ lastOp.op = "create_labels_for_oses"
    /\ lastOp.args.labels = None
    /\ lastOp.exc = "none"
    /\ _label_cache = None
    /\ repo_labels # {}
(***************************************************************************)
(* C11: in the frame prepare_data returns every build_id occurs in at most *)
(* one row, and for each build_id of the file the surviving row is a row   *)
(* of the file with the greatest timestamp among the rows carrying that    *)
(* build_id.                                                               *)
(***************************************************************************)
C11_LatestRowPerBuildSurvives ==
    df # None
    => LET out == Val(df)
           input == read_csv(csv)
       IN /\ \A i, j \in 1..Len(out) :
                out[i].build_id = out[j].build_id => i = j
          /\ \A k \in 1..Len(input) :
                \E i \in 1..Len(out) :
                   /\ out[i].build_id = input[k].build_id
                   /\ input[out[i].index + 1].build_id = out[i].build_id
                   /\ input[out[i].index + 1].timestamp = out[i].timestamp
                   /\ \A n \in 1..Len(input) :
                         input[n].build_id = out[i].build_id
                         => input[n].timestamp <= out[i].timestamp

(***************************************************************************)
(* C12: the client being the only one to change the repository's labels,   *)
(* after create_labels_for_* calls that have all returned without raising  *)
(* every canonical name asked for in any of them is the name of exactly    *)
(* one label of the repository, and that label carries the color of the    *)
(* category the name was asked for under; this includes the names a call   *)
(* skipped because the cache held them.                                    *)
(***************************************************************************)
C12_RequestedLabelsExistInCategoryColor ==
    requested # None
    => \A r \in Val(requested) :
          {l \in repo_labels : l.name = r.name} = {Label(r.name, r.color)}

\* A second call has returned: it skipped a name the cache held in the
\* category color, and a name asked for is not in the cache, which was
\* fetched before the client created or edited that label
C12_Witness ==
    /\ nops = 2
    /\ lastOp.op = "create_labels_for_oses"
    /\ lastOp.exc = "none"
    /\ requested # None
    /\ _label_cache # None
    /\ \E i \in 1..Len(lastOp.lookups) :
          /\ Label(lastOp.lookups[i].name, os_color) \in Val(_label_cache)
          /\ \A c \in 1..Len(lastOp.calls) :
                lastOp.calls[c].name # lastOp.lookups[i].name
    /\ \E r \in Val(requested) :
          /\ r \notin Val(_label_cache)
          /\ r \in repo_labels
====
